---------------------------- MODULE Spec2Model ----------------------------
(***************************************************************************)
(* Credential and key-custody subsystem of Crypto-Wallet-Backend.          *)
(*                                                                         *)
(* The model follows src/controllers/userController.js: one user document  *)
(* of the users collection, the request handlers that read it with         *)
(* User.findOne / User.findById and write it with user.save(), and the     *)
(* cipher helpers.  A handler that saves is two steps, the read (with all  *)
(* the local computation up to the `await user.save()`) and the save, so   *)
(* that requests of the same user interleave as they do on the event loop. *)
(***************************************************************************)
EXTENDS Integers, Sequences, FiniteSets, TLC

(***************************************************************************)
(* Bounds of the model.                                                    *)
(***************************************************************************)
MaxWallets == 4        \* key pairs ever generated (two of them at registration)
MaxSalt == 2           \* salts ever drawn after the registration salt 0
MaxReq == 2            \* requests of the user in flight at the same time
MaxWindow == 2          \* windows of the login limiter
MaxHits == 7            \* hits of one client in one window
MaxBalance == 2         \* token balances are 1..MaxBalance
MaxDocs == 2            \* wallet documents ever created
MaxEntries == 2         \* address book entries ever created

Passwords == {"p1", "p2"}
IVs == {0, 1}          \* classes of the random 16-byte IV, see PaddingVerifies
Slots == 1..MaxReq
Addresses == 1..MaxWallets
RequestedChains == {"ethereum", "solana", "Ethereum", "bitcoin"}
RequestedLabels == {"", "cold"}
\* the IVs one request draws for n ciphertexts: all of one class
IVChoices(ivs, n) == {[i \in 1..n |-> iv] : iv \in ivs}

(***************************************************************************)
(* Secrets.  A key pair is named by the number n of its generation; its    *)
(* public address is n and its private key EthPrivateKey(n) or             *)
(* SolSecretKey(n).  The mnemonic n derives the ethereum key pair n.       *)
(***************************************************************************)
Plain(kind, id) == [kind |-> kind, id |-> id]
NoPlain == Plain("none", 0)
Mnemonic(n) == Plain("mnemonic", n)
EthPrivateKey(n) == Plain("ethkey", n)
SolSecretKey(n) == Plain("solkey-bytes", n)
\* what decipher.final('utf8') returns when a wrong key passes the padding check
Garbage == Plain("garbage", 0)
\* decipher.final() throwing "bad decrypt"
BadDecrypt == Plain("bad decrypt", 0)

\* ethers.Wallet.fromPhrase(mnemonic).privateKey
WalletFromPhrase(mnemonic) == EthPrivateKey(mnemonic.id)

\* Buffer.from(secretKey).toString(): the UTF-8 decoding of the 64 key bytes,
\* which is not the "b0,b1,..." list the readers parse
BufferToString(secretKey) == Plain("solkey-utf8", secretKey.id)

\* Uint8Array.from(s.split(",").map(Number)) handed to Keypair.fromSecretKey:
\* only a comma-separated byte list gives the 64 bytes back
KeypairFromSecretKey(s) ==
    IF s.kind = "solkey-csv" THEN SolSecretKey(s.id) ELSE Plain("invalid", 0)

\* new ethers.Wallet(privateKey): only a 0x-hex private key is accepted
EthersWallet(s) ==
    IF s.kind = "ethkey" THEN s ELSE Plain("invalid", 0)

\* the private key that belongs to an address of a blockchain
PrivateKeyOf(blockchain, address) ==
    IF blockchain = "ethereum" THEN EthPrivateKey(address) ELSE SolSecretKey(address)

(***************************************************************************)
(* The cipher helpers.  pbkdf2 is deterministic and collision free; a      *)
(* ciphertext is iv ':' body, the body being readable under its key only.  *)
(* AES-256-CBC carries no authentication: under another key final() throws *)
(* "bad decrypt" unless the last block happens to end in valid PKCS#7      *)
(* padding, and then garbage is returned without any error.                *)
(***************************************************************************)
generateEncryptionKey(password, salt) == <<password, salt>>
NoKey == <<"", 0>>

encryptPrivateKey(privateKey, encryptionKey, iv) ==
    [iv |-> iv, key |-> encryptionKey, pt |-> privateKey]
NoCipher == encryptPrivateKey(NoPlain, NoKey, 0)

PaddingVerifies(encryptedData, encryptionKey) == encryptedData.iv = 1

decryptPrivateKey(encryptedData, encryptionKey) ==
    IF encryptedData.key = encryptionKey THEN encryptedData.pt
    ELSE IF PaddingVerifies(encryptedData, encryptionKey) THEN Garbage
    ELSE BadDecrypt

\* bcrypt.hash draws its own salt (nonce); bcrypt.compare
bcryptHash(password, nonce) == [pw |-> password, nonce |-> nonce]
NoHash == bcryptHash("", 0)
bcryptCompare(password, hash) == hash.pw = password

(***************************************************************************)
(* The cipher helpers at the level of bytes, for the laws of the cipher.   *)
(* Bytes are 0..ByteMod-1 and a block is BlockSize bytes.  A text is a     *)
(* sequence of characters: "a" and "b" encode as one byte (1 and 2), "e"   *)
(* as the two bytes 3 0, and "?" is U+FFFD, which the decoder puts in the  *)
(* place of every byte that belongs to no character.  The block cipher     *)
(* adds the key to each byte; the chaining, the PKCS#7 padding and the     *)
(* iv ':' body format are those of aes-256-cbc in createCipheriv.          *)
(***************************************************************************)
ByteMod == 4
BlockSize == 2
MaxText == 2

Bytes == 0..(ByteMod - 1)
Chars == {"a", "b", "e"}
Texts == UNION {[1..n -> Chars] : n \in 0..MaxText}
CipherKeys == 1..(ByteMod - 1)
Blocks == [1..BlockSize -> Bytes]

RECURSIVE Utf8Encode(_)
Utf8Encode(text) ==
    IF text = <<>> THEN <<>>
    ELSE (CASE Head(text) = "a" -> <<1>>
            [] Head(text) = "b" -> <<2>>
            [] Head(text) = "e" -> <<3, 0>>
            [] OTHER -> <<3, 1>>) \o Utf8Encode(Tail(text))

RECURSIVE Utf8Decode(_)
Utf8Decode(bytes) ==
    IF bytes = <<>> THEN <<>>
    ELSE IF Head(bytes) = 1 THEN <<"a">> \o Utf8Decode(Tail(bytes))
    ELSE IF Head(bytes) = 2 THEN <<"b">> \o Utf8Decode(Tail(bytes))
    ELSE IF Head(bytes) = 3 /\ Len(bytes) >= 2 /\ bytes[2] = 0
    THEN <<"e">> \o Utf8Decode(Tail(Tail(bytes)))
    ELSE <<"?">> \o Utf8Decode(Tail(bytes))

\* cipher.final(): PKCS#7, always at least one byte of padding
Pkcs7Pad(bytes) ==
    LET n == BlockSize - (Len(bytes) % BlockSize)
    IN bytes \o [i \in 1..n |-> n]

\* decipher.final(): the padding is checked and removed
Pkcs7Valid(bytes) ==
    /\ Len(bytes) >= BlockSize
    /\ LET n == bytes[Len(bytes)]
       IN /\ n \in 1..BlockSize
          /\ \A i \in (Len(bytes) - n + 1)..Len(bytes) : bytes[i] = n

Pkcs7Unpad(bytes) == SubSeq(bytes, 1, Len(bytes) - bytes[Len(bytes)])

\* the byte before position i of the chain: of the iv for the first block
ChainByte(iv, body, i) ==
    IF i <= BlockSize THEN iv[i] ELSE body[i - BlockSize]

RECURSIVE CbcEncrypt(_, _, _, _)
CbcEncrypt(padded, key, iv, done) ==
    IF Len(done) = Len(padded) THEN done
    ELSE LET i == Len(done) + 1
         IN CbcEncrypt(padded, key, iv,
                       Append(done, (padded[i] + ChainByte(iv, done, i) + key) % ByteMod))

\* the chain started from a zero iv instead of the iv of the ciphertext
CbcDecryptZeroIv(body, key, iv) ==
    [i \in 1..Len(body) |->
        (body[i] + 2 * ByteMod - key
           - ChainByte([j \in 1..BlockSize |-> 0], body, i)) % ByteMod]

CbcDecrypt(body, key, iv) ==
    [i \in 1..Len(body) |->
        (body[i] + 2 * ByteMod - key - ChainByte(iv, body, i)) % ByteMod]

\* the ':' of the format, which is no hex digit
Colon == ByteMod

\* iv.toString('hex') + ':' + encrypted
cipherText(text, key, iv) ==
    iv \o <<Colon>> \o CbcEncrypt(Pkcs7Pad(Utf8Encode(text)), key, iv, <<>>)

\* encryptedData.split(':'): parts[0] and parts[1]
SplitIv(encryptedData) ==
    SubSeq(encryptedData, 1,
           (CHOOSE i \in DOMAIN encryptedData : encryptedData[i] = Colon) - 1)

SplitBody(encryptedData) ==
    SubSeq(encryptedData,
           (CHOOSE i \in DOMAIN encryptedData : encryptedData[i] = Colon) + 1,
           Len(encryptedData))

DecryptionError == <<"bad decrypt">>

plainText(encryptedData, key) ==
    LET padded == CbcDecrypt(SplitBody(encryptedData), key, SplitIv(encryptedData))
    IN IF Pkcs7Valid(padded) THEN Utf8Decode(Pkcs7Unpad(padded))
       ELSE DecryptionError

NoProbe == [op |-> "none", text |-> <<>>, key |-> 0, data |-> <<>>,
            key2 |-> 0, result |-> <<>>]

(***************************************************************************)
(* The user document.                                                      *)
(***************************************************************************)
Wallet(blockchain, address, privateKey, isDefault, label) ==
    [blockchain |-> blockchain, address |-> address, privateKey |-> privateKey,
     isDefault |-> isDefault, label |-> label]

NoUser ==
    [registered |-> FALSE, password |-> NoHash, salt |-> 0,
     recoveryPhrase |-> NoCipher, wallets |-> <<>>, addressBook |-> <<>>,
     lastLogin |-> 0, v |-> 0]

\* wallets.filter(w => w.blockchain === blockchain).length
CountChain(wallets, blockchain) ==
    Cardinality({i \in DOMAIN wallets : wallets[i].blockchain = blockchain})

\* wallets.findIndex(w => w.address === a && w.blockchain === b), 0 for -1
FindIndex(wallets, address, blockchain) ==
    LET hits == {i \in DOMAIN wallets :
                    wallets[i].address = address /\ wallets[i].blockchain = blockchain}
    IN IF hits = {} THEN 0 ELSE CHOOSE i \in hits : \A j \in hits : i <= j

(***************************************************************************)
(* user.save().  Mongoose sends the modified paths only, as one update of  *)
(* the one document: $set of a replaced field, $set of wallets.<i>.isDefault*)
(* for an element changed in place, $push for wallets.push(); likewise for *)
(* addressBook, where splice() replaces the whole array.  Its version      *)
(* key __v guards array positions: replacing a whole array puts __v in     *)
(* the filter and increments it, a positional $set puts it in the filter   *)
(* only, a $push only increments it.  A filter that matches no document    *)
(* makes save() reject with a VersionError and writes nothing.             *)
(***************************************************************************)
NoUpdate ==
    [where |-> FALSE, inc |-> FALSE, replace |-> FALSE, password |-> NoHash,
     salt |-> 0, recoveryPhrase |-> NoCipher, wallets |-> <<>>,
     flags |-> {}, push |-> <<>>,
     bookReplace |-> FALSE, addressBook |-> <<>>, bookSet |-> {},
     bookPush |-> <<>>]

\* $set of addressBook.<i>.<field> for each <<i, field, value>>
ApplyBookSet(addressBook, bookSet) ==
    [i \in DOMAIN addressBook |->
        [field \in DOMAIN addressBook[i] |->
            IF \E c \in bookSet : c[1] = i /\ c[2] = field
            THEN (CHOOSE c \in bookSet : c[1] = i /\ c[2] = field)[3]
            ELSE addressBook[i][field]]]

ApplyFlags(wallets, flags) ==
    [i \in DOMAIN wallets |->
        IF \E f \in flags : f[1] = i
        THEN [wallets[i] EXCEPT !.isDefault = (<<i, TRUE>> \in flags)]
        ELSE wallets[i]]

Save(doc, u, vread) ==
    IF u.where /\ doc.v # vread
    THEN [ok |-> FALSE, doc |-> doc]
    ELSE [ok |-> TRUE,
          doc |-> [doc EXCEPT
                     !.password = IF u.replace THEN u.password ELSE @,
                     !.salt = IF u.replace THEN u.salt ELSE @,
                     !.recoveryPhrase = IF u.replace THEN u.recoveryPhrase ELSE @,
                     !.wallets = ApplyFlags(IF u.replace THEN u.wallets ELSE @, u.flags)
                                    \o u.push,
                     !.addressBook =
                         ApplyBookSet(IF u.bookReplace THEN u.addressBook ELSE @,
                                      u.bookSet) \o u.bookPush,
                     !.v = IF u.inc THEN @ + 1 ELSE @]]

(***************************************************************************)
(* What a handler decides at its read: an immediate reply, or an update to *)
(* save followed by the reply of a successful save.                        *)
(***************************************************************************)
NoOut == Plain("none", 0)

Reply(status, message, error) ==
    [save |-> FALSE, status |-> status, message |-> message, error |-> error,
     out |-> NoOut, update |-> NoUpdate]

ReplyWith(status, message, out) ==
    [save |-> FALSE, status |-> status, message |-> message, error |-> "",
     out |-> out, update |-> NoUpdate]

ThenSave(update, status, message, out) ==
    [save |-> TRUE, status |-> status, message |-> message, error |-> "",
     out |-> out, update |-> update]


(***************************************************************************)
(* registerUser: the document of a new user.  The mnemonic and the         *)
(* ethereum key pair are n, the solana key pair n + 1.                      *)
(***************************************************************************)
RegisterEthWallet(n, encryptionKey, iv) ==
    Wallet("ethereum", n,
           encryptPrivateKey(WalletFromPhrase(Mnemonic(n)), encryptionKey, iv),
           TRUE, <<"Default ETH Wallet", 0>>)

RegisterSolWallet(n, encryptionKey, iv) ==
    Wallet("solana", n,
           encryptPrivateKey(BufferToString(SolSecretKey(n)), encryptionKey, iv),
           TRUE, <<"Default SOL Wallet", 0>>)

registerUser(password, salt, n, ivEth, ivSol, ivPhrase) ==
    LET encryptionKey == generateEncryptionKey(password, salt)
    IN [registered |-> TRUE,
        password |-> bcryptHash(password, salt),
        salt |-> salt,
        recoveryPhrase |-> encryptPrivateKey(Mnemonic(n), encryptionKey, ivPhrase),
        wallets |-> << RegisterEthWallet(n, encryptionKey, ivEth),
                       RegisterSolWallet(n + 1, encryptionKey, ivSol) >>,
        addressBook |-> <<>>,
        lastLogin |-> 0,
        v |-> 0]

(***************************************************************************)
(* createAdditionalWallet                                                  *)
(***************************************************************************)
ToLowerCase(s) == IF s = "Ethereum" THEN "ethereum" ELSE s

Label(label, prefix, count) ==
    IF label # "" THEN <<label, 0>> ELSE <<prefix, count + 1>>

\* the flag of a new wallet taken to be that of the registration wallets
NewWalletDefaultTrue == TRUE

NewWalletDefault == FALSE

NewWallet(user, blockchain, label, password, n, iv) ==
    LET encryptionKey == generateEncryptionKey(password, user.salt)
    IN IF blockchain = "ethereum"
       THEN Wallet("ethereum", n,
                   encryptPrivateKey(EthPrivateKey(n), encryptionKey, iv),
                   NewWalletDefault,
                   Label(label, "ETH Wallet", CountChain(user.wallets, "ethereum")))
       ELSE Wallet("solana", n,
                   encryptPrivateKey(BufferToString(SolSecretKey(n)), encryptionKey, iv),
                   NewWalletDefault,
                   Label(label, "SOL Wallet", CountChain(user.wallets, "solana")))

createAdditionalWallet(user, blockchain, label, password, n, iv) ==
    IF ~user.registered THEN Reply(404, "User not found", "")
    ELSE IF ToLowerCase(blockchain) \in {"ethereum", "solana"}
    THEN LET newWallet ==
                 NewWallet(user, ToLowerCase(blockchain), label, password, n, iv)
         IN ThenSave([NoUpdate EXCEPT !.inc = TRUE, !.push = <<newWallet>>],
                     201, "Wallet created successfully",
                     Plain(newWallet.blockchain, newWallet.address))
    ELSE Reply(400, "Unsupported blockchain", "")

(***************************************************************************)
(* setDefaultWallet.  The forEach clears isDefault on every wallet of the  *)
(* blockchain and the match is then set: the modified paths are the        *)
(* elements whose flag differs in the end from the one read.               *)
(***************************************************************************)
\* the match is set without the forEach that clears the others
WithDefaultKeepOthers(wallets, walletIndex, blockchain) ==
    [i \in DOMAIN wallets |->
        IF i = walletIndex THEN [wallets[i] EXCEPT !.isDefault = TRUE]
        ELSE wallets[i]]

\* the wallets as the handler leaves them in memory
WithDefault(wallets, walletIndex, blockchain) ==
    [i \in DOMAIN wallets |->
        IF i = walletIndex THEN [wallets[i] EXCEPT !.isDefault = TRUE]
        ELSE IF wallets[i].blockchain = blockchain
        THEN [wallets[i] EXCEPT !.isDefault = FALSE]
        ELSE wallets[i]]

SetDefaultFlags(user, walletIndex, blockchain) ==
    LET after == WithDefault(user.wallets, walletIndex, blockchain)
    IN {<<i, after[i].isDefault>> : i \in
            {j \in DOMAIN after : after[j].isDefault # user.wallets[j].isDefault}}

\* without the return on walletIndex === -1: the forEach has cleared the
\* blockchain's flags and the document is saved
setDefaultWalletUnchecked(user, walletAddress, blockchain) ==
    IF ~user.registered THEN Reply(404, "User not found", "")
    ELSE LET walletIndex == FindIndex(user.wallets, walletAddress, blockchain)
             flags == SetDefaultFlags(user, walletIndex, blockchain)
         IN ThenSave([NoUpdate EXCEPT !.where = flags # {}, !.flags = flags],
                     200, "Default wallet updated successfully",
                     Plain(blockchain, walletAddress))

setDefaultWallet(user, walletAddress, blockchain) ==
    IF ~user.registered THEN Reply(404, "User not found", "")
    ELSE LET walletIndex == FindIndex(user.wallets, walletAddress, blockchain)
         IN IF walletIndex = 0 THEN Reply(404, "Wallet not found", "")
            ELSE ThenSave([NoUpdate EXCEPT
                              !.where =
                                  SetDefaultFlags(user, walletIndex, blockchain) # {},
                              !.flags = SetDefaultFlags(user, walletIndex, blockchain)],
                          200, "Default wallet updated successfully",
                          Plain(blockchain, walletAddress))

(***************************************************************************)
(* recoverWalletFromPhrase: the recovery-phrase reveal and, with a new     *)
(* password, the re-keying.  ivWallet[i] is the IV drawn for wallet i.     *)
(***************************************************************************)
\* `...wallet` instead of `...wallet._doc`: the fields of the stored wallet
\* are not copied and the schema defaults take their place
ReEncryptWalletBare(wallet, encryptionKey, newEncryptionKey, iv) ==
    Wallet(wallet.blockchain, wallet.address,
           encryptPrivateKey(decryptPrivateKey(wallet.privateKey, encryptionKey),
                             newEncryptionKey, iv),
           FALSE, <<"", 0>>)

ReEncryptWallet(wallet, encryptionKey, newEncryptionKey, iv) ==
    [wallet EXCEPT
        !.privateKey =
            encryptPrivateKey(decryptPrivateKey(wallet.privateKey, encryptionKey),
                              newEncryptionKey, iv)]

\* without `user.salt = newSalt`: the new key is derived from the old salt
RekeyUpdateSameSalt(user, mnemonic, encryptionKey, newPassword, newSalt, ivPhrase, ivWallet) ==
    LET newEncryptionKey == generateEncryptionKey(newPassword, user.salt)
    IN [NoUpdate EXCEPT
          !.where = TRUE, !.inc = TRUE, !.replace = TRUE,
          !.password = bcryptHash(newPassword, newSalt),
          !.salt = user.salt,
          !.recoveryPhrase = encryptPrivateKey(mnemonic, newEncryptionKey, ivPhrase),
          !.wallets = [i \in DOMAIN user.wallets |->
                          ReEncryptWallet(user.wallets[i], encryptionKey,
                                          newEncryptionKey, ivWallet[i])]]

\* the document written by an update that carries no version (updateOne)
RekeyUpdateUnversioned(user, mnemonic, encryptionKey, newPassword, newSalt, ivPhrase, ivWallet) ==
    LET newEncryptionKey == generateEncryptionKey(newPassword, newSalt)
    IN [NoUpdate EXCEPT
          !.where = FALSE, !.inc = TRUE, !.replace = TRUE,
          !.password = bcryptHash(newPassword, newSalt),
          !.salt = newSalt,
          !.recoveryPhrase = encryptPrivateKey(mnemonic, newEncryptionKey, ivPhrase),
          !.wallets = [i \in DOMAIN user.wallets |->
                          ReEncryptWallet(user.wallets[i], encryptionKey,
                                          newEncryptionKey, ivWallet[i])]]

\* the ciphertexts overwritten element by element (wallets[i].privateKey = ...)
\* instead of `user.wallets = updatedWallets`: positional $set, __v in the
\* filter but not incremented
RekeyUpdateInPlace(user, mnemonic, encryptionKey, newPassword, newSalt, ivPhrase, ivWallet) ==
    LET newEncryptionKey == generateEncryptionKey(newPassword, newSalt)
    IN [NoUpdate EXCEPT
          !.where = TRUE, !.inc = FALSE, !.replace = TRUE,
          !.password = bcryptHash(newPassword, newSalt),
          !.salt = newSalt,
          !.recoveryPhrase = encryptPrivateKey(mnemonic, newEncryptionKey, ivPhrase),
          !.wallets = [i \in DOMAIN user.wallets |->
                          ReEncryptWallet(user.wallets[i], encryptionKey,
                                          newEncryptionKey, ivWallet[i])]]

\* without `user.wallets = updatedWallets`: the wallets keep their ciphertexts
RekeyUpdateKeepWallets(user, mnemonic, encryptionKey, newPassword, newSalt, ivPhrase, ivWallet) ==
    LET newEncryptionKey == generateEncryptionKey(newPassword, newSalt)
    IN [NoUpdate EXCEPT
          !.where = TRUE, !.inc = TRUE, !.replace = TRUE,
          !.password = bcryptHash(newPassword, newSalt),
          !.salt = newSalt,
          !.recoveryPhrase = encryptPrivateKey(mnemonic, newEncryptionKey, ivPhrase),
          !.wallets = user.wallets]

RekeyUpdate(user, mnemonic, encryptionKey, newPassword, newSalt, ivPhrase, ivWallet) ==
    LET newEncryptionKey == generateEncryptionKey(newPassword, newSalt)
    IN [NoUpdate EXCEPT
          !.where = TRUE, !.inc = TRUE, !.replace = TRUE,
          !.password = bcryptHash(newPassword, newSalt),
          !.salt = newSalt,
          !.recoveryPhrase = encryptPrivateKey(mnemonic, newEncryptionKey, ivPhrase),
          !.wallets = [i \in DOMAIN user.wallets |->
                          ReEncryptWallet(user.wallets[i], encryptionKey,
                                          newEncryptionKey, ivWallet[i])]]

\* a wallet that does not decrypt is carried along instead of aborting
recoverSkippingFailures(user, password, newPassword, newSalt, ivPhrase, ivWallet) ==
    IF ~user.registered THEN Reply(404, "User not found", "")
    ELSE IF ~bcryptCompare(password, user.password)
    THEN Reply(401, "Invalid credentials", "")
    ELSE LET encryptionKey == generateEncryptionKey(password, user.salt)
             mnemonic == decryptPrivateKey(user.recoveryPhrase, encryptionKey)
         IN IF mnemonic = BadDecrypt THEN Reply(500, "Recovery failed", "bad decrypt")
            ELSE IF newPassword = ""
            THEN ReplyWith(200, "Recovery phrase retrieved successfully", mnemonic)
            ELSE ThenSave(RekeyUpdate(user, mnemonic, encryptionKey, newPassword,
                                      newSalt, ivPhrase, ivWallet),
                          200, "Wallet recovered and password updated successfully",
                          mnemonic)

recoverWalletFromPhrase(user, password, newPassword, newSalt, ivPhrase, ivWallet) ==
    IF ~user.registered THEN Reply(404, "User not found", "")
    ELSE IF ~bcryptCompare(password, user.password)
    THEN Reply(401, "Invalid credentials", "")
    ELSE LET encryptionKey == generateEncryptionKey(password, user.salt)
             mnemonic == decryptPrivateKey(user.recoveryPhrase, encryptionKey)
         IN IF mnemonic = BadDecrypt THEN Reply(500, "Recovery failed", "bad decrypt")
            ELSE IF newPassword = ""
            THEN ReplyWith(200, "Recovery phrase retrieved successfully", mnemonic)
            ELSE IF \E i \in DOMAIN user.wallets :
                       decryptPrivateKey(user.wallets[i].privateKey, encryptionKey)
                           = BadDecrypt
            THEN Reply(500, "Recovery failed", "bad decrypt")
            ELSE ThenSave(RekeyUpdate(user, mnemonic, encryptionKey, newPassword,
                                      newSalt, ivPhrase, ivWallet),
                          200, "Wallet recovered and password updated successfully",
                          mnemonic)

(***************************************************************************)
(* signMessage: the secret access of a wallet.  The signature names the    *)
(* private key that made it.  nacl is never required by the controller, so *)
(* the solana branch throws even for a key pair it could rebuild.          *)
(***************************************************************************)
Signature(privateKey) == Plain("signature", privateKey.id)

\* the private key is read without the password-derived key
signMessageAnyPassword(user, walletAddress, blockchain, password) ==
    IF ~user.registered THEN Reply(404, "User not found", "")
    ELSE LET walletIndex == FindIndex(user.wallets, walletAddress, blockchain)
         IN IF walletIndex = 0 THEN Reply(404, "Wallet not found", "")
            ELSE ReplyWith(200, "Message signed successfully",
                           Signature(user.wallets[walletIndex].privateKey.pt))

signMessage(user, walletAddress, blockchain, password) ==
    IF ~user.registered THEN Reply(404, "User not found", "")
    ELSE LET walletIndex == FindIndex(user.wallets, walletAddress, blockchain)
         IN IF walletIndex = 0 THEN Reply(404, "Wallet not found", "")
            ELSE LET encryptionKey == generateEncryptionKey(password, user.salt)
                     privateKey == decryptPrivateKey(
                                       user.wallets[walletIndex].privateKey,
                                       encryptionKey)
                 IN IF privateKey = BadDecrypt
                    THEN Reply(500, "Signing failed", "bad decrypt")
                    ELSE IF blockchain = "ethereum"
                    THEN IF EthersWallet(privateKey).kind = "invalid"
                         THEN Reply(500, "Signing failed", "invalid private key")
                         ELSE ReplyWith(200, "Message signed successfully",
                                        Signature(EthersWallet(privateKey)))
                    ELSE IF KeypairFromSecretKey(privateKey).kind = "invalid"
                         THEN Reply(500, "Signing failed", "bad secret key size")
                         ELSE Reply(500, "Signing failed", "nacl is not defined")

(***************************************************************************)
(* loginUser: authenticates and issues the token; it saves nothing.        *)
(***************************************************************************)
loginUser(user, password) ==
    IF ~user.registered THEN Reply(404, "User not found", "")
    ELSE IF ~bcryptCompare(password, user.password)
    THEN Reply(400, "Invalid credentials", "")
    ELSE ReplyWith(200, "Login successful", Plain("token", 0))

(***************************************************************************)
(* The transfers.  rpc tells whether the calls to the node succeed; the    *)
(* transaction names the private key that signed it.                       *)
(***************************************************************************)
Transaction(privateKey) == Plain("transaction", privateKey.id)

transferERC20Token(user, walletAddress, password, rpc) ==
    IF ~user.registered THEN Reply(404, "User not found", "")
    ELSE LET walletIndex == FindIndex(user.wallets, walletAddress, "ethereum")
         IN IF walletIndex = 0 THEN Reply(404, "Wallet not found", "")
            ELSE LET encryptionKey == generateEncryptionKey(password, user.salt)
                     privateKey == decryptPrivateKey(
                                       user.wallets[walletIndex].privateKey,
                                       encryptionKey)
                 IN IF privateKey = BadDecrypt
                    THEN Reply(500, "Token transfer failed", "bad decrypt")
                    ELSE IF EthersWallet(privateKey).kind = "invalid"
                    THEN Reply(500, "Token transfer failed", "invalid private key")
                    ELSE IF ~rpc
                    THEN Reply(500, "Token transfer failed", "network error")
                    ELSE ReplyWith(200, "tokens transferred successfully",
                                   Transaction(EthersWallet(privateKey)))

\* transferSOL checks the key pair against the wallet address (checked),
\* transferSPLToken does not
transferSolana(user, walletAddress, password, rpc, checked, failed) ==
    IF ~user.registered THEN Reply(404, "User not found", "")
    ELSE LET walletIndex == FindIndex(user.wallets, walletAddress, "solana")
         IN IF walletIndex = 0 THEN Reply(404, "Wallet not found", "")
            ELSE LET encryptionKey == generateEncryptionKey(password, user.salt)
                     privateKeyString == decryptPrivateKey(
                                             user.wallets[walletIndex].privateKey,
                                             encryptionKey)
                     fromKeypair == KeypairFromSecretKey(privateKeyString)
                 IN IF privateKeyString = BadDecrypt
                    THEN Reply(500, failed, "bad decrypt")
                    ELSE IF fromKeypair.kind = "invalid"
                    THEN Reply(500, failed, "bad secret key size")
                    ELSE IF checked /\ fromKeypair.id # walletAddress
                    THEN Reply(400, "Invalid wallet key pair", "")
                    ELSE IF ~rpc THEN Reply(500, failed, "network error")
                    ELSE ReplyWith(200, "transferred successfully",
                                   Transaction(fromKeypair))

transferSOL(user, walletAddress, password, rpc) ==
    transferSolana(user, walletAddress, password, rpc, TRUE, "SOL transfer failed")

transferSPLToken(user, walletAddress, password, rpc) ==
    transferSolana(user, walletAddress, password, rpc, FALSE,
                   "SPL token transfer failed")

(***************************************************************************)
(* The address book.  An address is a string: the 40 hex digits of an      *)
(* ethereum account n written in lower case or with the EIP-55 checksum    *)
(* case, the base58 text of a solana key n, or a text that is neither.     *)
(***************************************************************************)
BookAddress(n, form) == [n |-> n, form |-> form]

\* ethers.isAddress(address)
isAddress(address) == address.form \in {"lower", "checksum"}

\* new PublicKey(address) does not throw
PublicKeyDecodes(address) == address.form = "base58"

\* the validation taking an address of an unknown blockchain to be valid
IsValidAddressOpen(address, blockchain) ==
    IF blockchain = "ethereum" THEN isAddress(address)
    ELSE IF blockchain = "solana" THEN PublicKeyDecodes(address)
    ELSE TRUE

\* the validation both handlers run once the blockchain is named in lower case
IsValidAddress(address, blockchain) ==
    IF blockchain = "ethereum" THEN isAddress(address)
    ELSE IF blockchain = "solana" THEN PublicKeyDecodes(address)
    ELSE FALSE

Entry(label, address, blockchain, notes, id) ==
    [label |-> label, address |-> address, blockchain |-> blockchain,
     notes |-> notes, id |-> id]

\* entries.find(e => e.address === address && e.blockchain === blockchain)
FindEntry(entries, address, blockchain) ==
    \E i \in DOMAIN entries :
        entries[i].address = address /\ entries[i].blockchain = blockchain

\* addressBook.findIndex(entry => entry._id.toString() === entryId), 0 for -1
FindEntryIndex(addressBook, entryId) ==
    LET hits == {i \in DOMAIN addressBook : addressBook[i].id = entryId}
    IN IF hits = {} THEN 0 ELSE CHOOSE i \in hits : \A j \in hits : i <= j

addAddressBookEntry(user, label, address, blockchain, notes, id) ==
    IF ~user.registered THEN Reply(404, "User not found", "")
    ELSE IF ~IsValidAddress(address, blockchain)
    THEN Reply(400, "Invalid address format", "")
    ELSE IF FindEntry(user.addressBook, address, blockchain)
    THEN Reply(400, "Address already exists in address book", "")
    ELSE ThenSave([NoUpdate EXCEPT
                      !.inc = TRUE,
                      !.bookPush = <<Entry(label, address, blockchain, notes, id)>>],
                  201, "Address added to address book", Plain("entry", id))

\* the reason one entry of a batch is refused for, "" when it is taken
BatchReason(addressBook, validEntries, entry) ==
    IF entry.label = "" THEN "Missing required fields"
    ELSE IF ToLowerCase(entry.blockchain) \notin {"ethereum", "solana"}
    THEN "Invalid blockchain"
    ELSE IF ~IsValidAddress(entry.address, ToLowerCase(entry.blockchain))
    THEN "Invalid address format"
    ELSE IF FindEntry(addressBook, entry.address, entry.blockchain)
    THEN "Address already exists in address book"
    ELSE IF FindEntry(validEntries, entry.address, entry.blockchain)
    THEN "Duplicate address in batch"
    ELSE ""

\* the for loop over the entries: validEntries, and invalidEntries with the
\* reason each was refused for
RECURSIVE ProcessBatch(_, _, _, _, _)
ProcessBatch(addressBook, entries, validEntries, invalidEntries, id) ==
    IF entries = <<>>
    THEN [validEntries |-> validEntries, invalidEntries |-> invalidEntries]
    ELSE LET entry == Head(entries)
             reason == BatchReason(addressBook, validEntries, entry)
         IN IF reason # ""
            THEN ProcessBatch(addressBook, Tail(entries), validEntries,
                              Append(invalidEntries,
                                     [entry |-> entry, reason |-> reason]), id)
            ELSE ProcessBatch(addressBook, Tail(entries),
                              Append(validEntries,
                                     Entry(entry.label, entry.address,
                                           ToLowerCase(entry.blockchain),
                                           entry.notes, id + Len(validEntries))),
                              invalidEntries, id)

\* the response leaving the refused entries out
BatchOutAddedOnly(batch) ==
    [kind |-> "batch", id |-> Len(batch.validEntries), invalidEntries |-> <<>>]

BatchOut(batch) ==
    [kind |-> "batch", id |-> Len(batch.validEntries),
     invalidEntries |-> batch.invalidEntries]

addBatchAddressBookEntries(user, entries, id) ==
    IF entries = <<>> THEN Reply(400, "Invalid entries format", "")
    ELSE IF ~user.registered THEN Reply(404, "User not found", "")
    ELSE LET batch == ProcessBatch(user.addressBook, entries, <<>>, <<>>, id)
         IN IF batch.validEntries # <<>>
            THEN ThenSave([NoUpdate EXCEPT !.inc = TRUE,
                                           !.bookPush = batch.validEntries],
                          200, "Batch processing completed", BatchOut(batch))
            ELSE ReplyWith(200, "Batch processing completed", BatchOut(batch))

\* a field the request body does not carry
Undefined == "undefined"

updateAddressBookEntry(user, entryId, label, notes) ==
    IF ~user.registered THEN Reply(404, "User not found", "")
    ELSE LET entryIndex == FindEntryIndex(user.addressBook, entryId)
         IN IF entryIndex = 0
            THEN Reply(404, "Address book entry not found", "")
            ELSE LET entry == user.addressBook[entryIndex]
                     bookSet ==
                         (IF label \notin {"", Undefined, entry.label}
                          THEN {<<entryIndex, "label", label>>} ELSE {})
                         \cup (IF notes \notin {Undefined, entry.notes}
                               THEN {<<entryIndex, "notes", notes>>} ELSE {})
                 IN ThenSave([NoUpdate EXCEPT !.where = bookSet # {},
                                              !.bookSet = bookSet],
                             200, "Address book entry updated successfully",
                             Plain("entry", entryId))

\* the splice taking the entries from entryIndex to the end
SpliceToEnd(addressBook, entryIndex) ==
    [i \in 1..(entryIndex - 1) |-> addressBook[i]]

\* addressBook.splice(entryIndex, 1)
Splice(addressBook, entryIndex) ==
    [i \in 1..(Len(addressBook) - 1) |->
        IF i < entryIndex THEN addressBook[i] ELSE addressBook[i + 1]]

deleteAddressBookEntry(user, entryId) ==
    IF ~user.registered THEN Reply(404, "User not found", "")
    ELSE LET entryIndex == FindEntryIndex(user.addressBook, entryId)
         IN IF entryIndex = 0
            THEN Reply(404, "Address book entry not found", "")
            ELSE ThenSave([NoUpdate EXCEPT
                              !.where = TRUE, !.inc = TRUE, !.bookReplace = TRUE,
                              !.addressBook = Splice(user.addressBook, entryIndex)],
                          200, "Address book entry deleted successfully", NoOut)

\* the message of each handler's catch block
CatchMessage(op) ==
    IF op = "recoverWalletFromPhrase" THEN "Recovery failed" ELSE "Server error"

(***************************************************************************)
(* authLimiter: express-rate-limit in front of loginUser.  Every request   *)
(* of a client is a hit of the window; a request whose hits exceed max is  *)
(* answered 429 and goes no further; with skipSuccessfulRequests a         *)
(* response below 400 takes its hit back when it is finished; the hits are *)
(* dropped when the window ends.  failed and window are history: the       *)
(* attempts of the window that loginUser refused, and the window's number. *)
(***************************************************************************)
Clients == 1..2
LimiterMax == 5

NoHits ==
    [hits |-> [c \in Clients |-> 0], failed |-> [c \in Clients |-> 0],
     window |-> 1]

\* resetAll() at the end of the window
ResetAll(store) == [NoHits EXCEPT !.window = store.window + 1]

\* the increment left out
IncrementNever(store, client) == store

\* store.increment(key)
Increment(store, client) == [store EXCEPT !.hits[client] = @ + 1]

\* the request goes on to loginUser
Passes(store, client) == store.hits[client] <= LimiterMax

TooManyRequests ==
    Reply(429, "Too many failed login attempts, please try again later", "")

\* res.on("finish"): the hit of a successful response is taken back
Finished(store, client, status, limited) ==
    [store EXCEPT
        !.hits[client] = IF status < 400 /\ @ > 0 THEN @ - 1 ELSE @,
        !.failed[client] = IF status >= 400 /\ ~limited THEN @ + 1 ELSE @]

(***************************************************************************)
(* The middlewares in front of the handlers: protect (authMiddleware.js)   *)
(* and auth.  The Authorization header of a request is absent, is a text   *)
(* that does not start with Bearer ("basic"), is Bearer with no token      *)
(* after it ("bearer"), or is Bearer and a token: one that does not verify *)
(* ("invalid"), one that verifies and names the user ("valid"), one that   *)
(* verifies and names a user who is not in the store ("deleted").          *)
(***************************************************************************)
Headers == {"absent", "basic", "bearer", "invalid", "valid", "deleted"}

\* jwt.verify(token, JWT_SECRET) returns
Verifies(header) == header \in {"valid", "deleted"}

\* User.findById(decoded.id) finds a document
Found(header, user) == header = "valid" /\ user.registered

Outcome(responses, nexts) == [responses |-> responses, nexts |-> nexts]

Denied(message) == [status |-> 401, message |-> message]

\* protect: the try block of a header that starts with Bearer, and the
\* `if (!token)` that follows it unless the try block has returned
protect(header, found) ==
    LET startsWithBearer == header \notin {"absent", "basic"}
        token == IF startsWithBearer /\ header # "bearer" THEN header ELSE Undefined
        tried ==
            IF ~startsWithBearer THEN Outcome(<<>>, 0)
            ELSE IF ~Verifies(header)
            THEN Outcome(<<Denied("Not authorized, token failed")>>, 0)
            ELSE IF ~found
            THEN Outcome(<<Denied("Not authorized, user not found")>>, 0)
            ELSE Outcome(<<>>, 1)
        returned == startsWithBearer /\ Verifies(header) /\ ~found
    IN IF ~returned /\ token = Undefined
       THEN Outcome(Append(tried.responses,
                           Denied("Not authorized, no token provided")),
                    tried.nexts)
       ELSE tried

\* auth letting every request through
authOpen(header, found) == Outcome(<<>>, 1)

\* auth: the token is the header without its 'Bearer ' prefix
auth(header, found) ==
    IF header = "absent"
    THEN Outcome(<<Denied("No authentication token, access denied")>>, 0)
    ELSE IF ~Verifies(header)
    THEN Outcome(<<Denied("Token is not valid")>>, 0)
    ELSE IF ~found
    THEN Outcome(<<Denied("Token is valid, but user not found")>>, 0)
    ELSE Outcome(<<>>, 1)

\* the request under the middleware: responses are the res.json() calls
\* made, nexts the next() calls made
NoCall ==
    [pc |-> "none", mw |-> "none", header |-> "absent", responses |-> <<>>,
     nexts |-> 0]

Called(mw, header, pc, outcome) ==
    [pc |-> pc, mw |-> mw, header |-> header, responses |-> outcome.responses,
     nexts |-> outcome.nexts]

(***************************************************************************)
(* walletController: the wallets collection.  A document is stored as the  *)
(* handler builds it, under the _id it is given; userId is req.user.userId.*)
(***************************************************************************)
Users == 1..2
WalletIds == 0..MaxDocs       \* 0: a walletId that is not an ObjectId
WalletNames == {"", "n1"}

\* crypto.createHash('sha256').update(privateKey + JWT_SECRET).digest('hex'):
\* a digest, from which nothing reads the private key back
Sha256(privateKey) == [kind |-> "sha256", id |-> privateKey.id]

\* bs58.encode(keypair.secretKey)
Bs58Encode(secretKey) == Plain("solkey-bs58", secretKey.id)

WalletDoc(id, user, name, blockchain, address, privateKey) ==
    [id |-> id, user |-> user, name |-> name, blockchain |-> blockchain,
     address |-> address, privateKey |-> privateKey]

\* name || fallback
OrElse(name, fallback) == IF name = "" THEN fallback ELSE name

createEthereumWallet(userId, name, n, id) ==
    WalletDoc(id, userId, OrElse(name, "Ethereum Wallet"), "ethereum", n,
              Sha256(EthPrivateKey(n)))

createSolanaWallet(userId, name, n, id) ==
    WalletDoc(id, userId, OrElse(name, "Solana Wallet"), "solana", n,
              Sha256(Bs58Encode(SolSecretKey(n))))

\* Wallet.findOne({ user: userId, address })
OwnsAddress(docs, userId, address) ==
    \E i \in DOMAIN docs : docs[i].user = userId /\ docs[i].address = address

\* importEthereumWallet / importSolanaWallet of a private key that is valid
\* for the blockchain: the document to save, or none
importWallet(docs, userId, name, blockchain, privateKey, id) ==
    IF privateKey = NoPlain THEN Reply(400, "Private key is required", "")
    ELSE IF privateKey.kind # (IF blockchain = "ethereum" THEN "ethkey"
                                                          ELSE "solkey-bs58")
    THEN Reply(400, "Invalid private key", "")
    ELSE IF OwnsAddress(docs, userId, privateKey.id)
    THEN Reply(400, "Wallet already imported", "")
    ELSE ReplyWith(201, "wallet imported successfully",
                   WalletDoc(id, userId,
                             OrElse(name, IF blockchain = "ethereum"
                                          THEN "Imported Ethereum Wallet"
                                          ELSE "Imported Solana Wallet"),
                             blockchain, privateKey.id, Sha256(privateKey)))

\* the cast of walletId to an ObjectId succeeds
IsObjectId(walletId) == walletId # 0

\* Wallet.findOne({ _id: walletId, user: userId }), 0 for null
FindWallet(docs, walletId, userId) ==
    LET hits == {i \in DOMAIN docs : docs[i].id = walletId /\ docs[i].user = userId}
    IN IF hits = {} THEN 0 ELSE CHOOSE i \in hits : TRUE

\* Wallet.findOne({ _id: walletId }): the owner is not asked for
FindWalletOfAnyone(docs, walletId, userId) ==
    LET hits == {i \in DOMAIN docs : docs[i].id = walletId}
    IN IF hits = {} THEN 0 ELSE CHOOSE i \in hits : TRUE

\* updateWallet and deleteWallet up to their write: the reply, and whether
\* the write follows
findWallet(docs, walletId, userId, done) ==
    IF ~IsObjectId(walletId) THEN Reply(500, "Server error", "CastError")
    ELSE IF FindWallet(docs, walletId, userId) = 0
    THEN Reply(404, "Wallet not found", "")
    ELSE ReplyWith(200, done, Plain("wallet", walletId))

\* wallet.save() of updateWallet: the name of the document of that _id
SaveName(docs, walletId, name) ==
    [i \in DOMAIN docs |->
        IF docs[i].id = walletId /\ name # ""
        THEN [docs[i] EXCEPT !.name = name] ELSE docs[i]]

\* Wallet.deleteOne({ _id: walletId })
DeleteOne(docs, walletId) == SelectSeq(docs, LAMBDA d : d.id # walletId)

(***************************************************************************)
(* Wallet.updateTokenBalance on the tokens of one stored wallet.  Each of  *)
(* its two findOneAndUpdate calls is atomic in the database; the second is *)
(* issued when the first has returned null.  last is history: per token    *)
(* address the balance of the call that completed last (0 for none).       *)
(***************************************************************************)
Callers == 1..2
TokenAddresses == {"0xt1", "0xt2"}
Balances == 1..MaxBalance

TokenData(tokenAddress, balance) == [address |-> tokenAddress, balance |-> balance]
NoTokenCall == [pc |-> "idle", tokenData |-> TokenData("", 0)]

NoTokens ==
    [list |-> <<>>,
     calls |-> [c \in Callers |-> NoTokenCall],
     last |-> [t \in TokenAddresses |-> 0]]

\* the filter 'tokens.address': tokenAddress matches the wallet
HasToken(list, tokenAddress) ==
    \E i \in DOMAIN list : list[i].address = tokenAddress

\* $set: { 'tokens.$': tokenData }: the first element that matches
SetPositional(list, tokenData) ==
    LET first == CHOOSE i \in DOMAIN list :
                     /\ list[i].address = tokenData.address
                     /\ \A j \in 1..(i - 1) : list[j].address # tokenData.address
    IN [list EXCEPT ![first] = tokenData]

\* the call has returned the updated wallet
Completed(t, c, list, tokenData) ==
    [t EXCEPT !.list = list, !.calls[c] = NoTokenCall,
              !.last[tokenData.address] = tokenData.balance]

\* updateTokenBalance up to the return of its first findOneAndUpdate
updateTokenBalance(t, c, tokenAddress, balance) ==
    LET tokenData == TokenData(tokenAddress, balance)
    IN IF HasToken(t.list, tokenAddress)
       THEN Completed(t, c, SetPositional(t.list, tokenData), tokenData)
       ELSE [t EXCEPT !.calls[c] = [pc |-> "pushing", tokenData |-> tokenData]]

\* the second findOneAndUpdate: $push: { tokens: tokenData }
pushToken(t, c) ==
    Completed(t, c, Append(t.list, t.calls[c].tokenData), t.calls[c].tokenData)


(***************************************************************************)
(* State.                                                                  *)
(***************************************************************************)
VARIABLES
    db,          \* the user document of the users collection (NoUser: none)
    reqs,        \* per request slot: the request being served and the response
                 \* it is about to send
    nextKey,     \* the next key pair to be generated
    nextSalt,    \* the next salt to be drawn
    lastPassword,\* history: the login password that the last re-keying to a
                 \* different password replaced ("" when there was none)
    probe,       \* a text under encryptPrivateKey and decryptPrivateKey
    nextEntry,   \* the next _id of an address book entry or wallet document
    limiter,     \* the store of authLimiter: per client the hits of the window
    call,        \* a request under the protect or auth middleware
    walletDocs,  \* the wallets collection of walletController
    tokens       \* the tokens of one wallet and the updateTokenBalance calls

vars == <<db, reqs, nextKey, nextSalt, lastPassword, probe, nextEntry,
          limiter, call, walletDocs, tokens>>

\* what the handlers of the user document leave alone
others == <<limiter, call, walletDocs, tokens>>

NoRequest ==
    [pc |-> "idle", op |-> "none", vread |-> 0,
     status |-> 0, message |-> "", error |-> "", out |-> NoOut,
     update |-> NoUpdate, body |-> <<>>]

\* no handler is between its res.status() and the end of its res.json()
Quiet == \A q \in Slots : reqs[q].pc # "replied"

\* a request takes the lowest slot that serves no request
Free(r) ==
    /\ Quiet
    /\ reqs[r].pc = "idle"
    /\ \A q \in Slots : q < r => reqs[q].pc # "idle"

\* the handler has run up to its reply or up to its `await user.save()`;
\* body is what the model keeps of req.body and req.params
Received(op, result, vread, body) ==
    [pc |-> IF result.save THEN "saving" ELSE "replied",
     op |-> op, vread |-> vread,
     status |-> result.status, message |-> result.message,
     error |-> result.error, out |-> result.out, update |-> result.update,
     body |-> body]

Started(op, result, vread) == Received(op, result, vread, <<>>)

\* the save has returned: the reply prepared, or the catch block's
Saved(req, ok) ==
    IF ok THEN [req EXCEPT !.pc = "replied", !.update = NoUpdate]
    ELSE [req EXCEPT !.pc = "replied", !.update = NoUpdate, !.status = 500,
                     !.message = CatchMessage(req.op), !.error = "VersionError",
                     !.out = NoOut]

Step(r, req) ==
    /\ reqs' = [reqs EXCEPT ![r] = req]
    /\ probe' = probe
    /\ UNCHANGED others

Init ==
    /\ db = NoUser
    /\ reqs = [r \in Slots |-> NoRequest]
    /\ nextKey = 1
    /\ nextSalt = 1
    /\ lastPassword = ""
    /\ probe = NoProbe
    /\ nextEntry = 1
    /\ limiter = NoHits
    /\ call = NoCall
    /\ walletDocs = <<>>
    /\ tokens = NoTokens

(***************************************************************************)
(* Actions.                                                                *)
(***************************************************************************)
RegisterUser(r, ivs) ==
    /\ Free(r)
    /\ \E password \in Passwords, iv \in ivs :
        IF db.registered
        THEN /\ Step(r, Started("registerUser",
                                Reply(400, "Username already exists", ""), 0))
             /\ UNCHANGED <<db, nextKey, nextSalt, lastPassword, nextEntry>>
        ELSE /\ nextKey + 1 <= MaxWallets
             /\ db' = registerUser(password, 0, nextKey, iv, iv, iv)
             /\ Step(r, Started("registerUser",
                                ReplyWith(201, "User registered successfully",
                                          Mnemonic(nextKey)), 0))
             /\ nextKey' = nextKey + 2
             /\ UNCHANGED <<nextSalt, lastPassword, nextEntry>>

CreateAdditionalWallet(r, ivs, labels, maxKey) ==
    /\ Free(r)
    /\ nextKey <= maxKey
    /\ \E blockchain \in RequestedChains, label \in labels,
          password \in Passwords, iv \in ivs :
        LET result == createAdditionalWallet(db, blockchain, label, password,
                                             nextKey, iv)
        IN /\ Step(r, Started("createAdditionalWallet", result, db.v))
           /\ nextKey' = IF result.save THEN nextKey + 1 ELSE nextKey
    /\ UNCHANGED <<db, nextSalt, lastPassword, nextEntry>>

SetDefaultWallet(r) ==
    /\ Free(r)
    /\ \E walletAddress \in Addresses, blockchain \in RequestedChains :
        Step(r, Started("setDefaultWallet",
                        setDefaultWallet(db, walletAddress, blockchain), db.v))
    /\ UNCHANGED <<db, nextKey, nextSalt, lastPassword, nextEntry>>

RecoverWalletFromPhrase(r, ivs) ==
    /\ Free(r)
    /\ nextSalt <= MaxSalt
    /\ \E password \in Passwords, newPassword \in Passwords \cup {""},
          ivWallet \in IVChoices(ivs, Len(db.wallets) + 1) :
        LET result == recoverWalletFromPhrase(db, password, newPassword, nextSalt,
                                              ivWallet[Len(db.wallets) + 1], ivWallet)
        IN /\ Step(r, Started("recoverWalletFromPhrase", result, db.v))
           /\ nextSalt' = IF result.save THEN nextSalt + 1 ELSE nextSalt
    /\ UNCHANGED <<db, nextKey, lastPassword, nextEntry>>

SignMessage(r) ==
    /\ Free(r)
    /\ \E walletAddress \in Addresses, blockchain \in RequestedChains,
          password \in Passwords :
        Step(r, Started("signMessage",
                        signMessage(db, walletAddress, blockchain, password), db.v))
    /\ UNCHANGED <<db, nextKey, nextSalt, lastPassword, nextEntry>>

LoginUser(r) ==
    /\ Free(r)
    /\ \E password \in Passwords :
        Step(r, Started("loginUser", loginUser(db, password), db.v))
    /\ UNCHANGED <<db, nextKey, nextSalt, lastPassword, nextEntry>>

\* transferERC20Token, transferSOL and transferSPLToken
Transfer(r) ==
    /\ Free(r)
    /\ \E walletAddress \in Addresses, password \in Passwords, rpc \in BOOLEAN :
        \/ Step(r, Started("transferERC20Token",
                           transferERC20Token(db, walletAddress, password, rpc),
                           db.v))
        \/ Step(r, Started("transferSOL",
                           transferSOL(db, walletAddress, password, rpc), db.v))
        \/ Step(r, Started("transferSPLToken",
                           transferSPLToken(db, walletAddress, password, rpc),
                           db.v))
    /\ UNCHANGED <<db, nextKey, nextSalt, lastPassword, nextEntry>>

\* the entries a batch request may carry: one or two of them
Batches(addresses, chains) ==
    LET entries == {Entry("l1", address, blockchain, "", 0) :
                        address \in addresses, blockchain \in chains}
    IN {<<e>> : e \in entries} \cup {<<e, f>> : e \in entries, f \in entries}

AddAddressBookEntry(r, addresses, chains, maxEntry) ==
    /\ Free(r)
    /\ nextEntry <= maxEntry
    /\ \E address \in addresses, blockchain \in chains :
        LET result == addAddressBookEntry(db, "l1", address, blockchain, "",
                                          nextEntry)
        IN /\ Step(r, Received("addAddressBookEntry", result, db.v,
                                <<Entry("l1", address, blockchain, "", 0)>>))
           /\ nextEntry' = IF result.save THEN nextEntry + 1 ELSE nextEntry
    /\ UNCHANGED <<db, nextKey, nextSalt, lastPassword>>

AddBatchAddressBookEntries(r, addresses, chains, maxEntry) ==
    /\ Free(r)
    /\ nextEntry + 1 <= maxEntry
    /\ \E entries \in Batches(addresses, chains) \cup {<<>>} :
        LET result == addBatchAddressBookEntries(db, entries, nextEntry)
        IN /\ Step(r, Received("addBatchAddressBookEntries", result, db.v,
                                entries))
           /\ nextEntry' = nextEntry + Len(result.update.bookPush)
    /\ UNCHANGED <<db, nextKey, nextSalt, lastPassword>>

UpdateAddressBookEntry(r, labels, maxEntry) ==
    /\ Free(r)
    /\ \E entryId \in 1..maxEntry, label \in labels, notes \in {Undefined, "n1"} :
        Step(r, Received("updateAddressBookEntry",
                         updateAddressBookEntry(db, entryId, label, notes), db.v,
                         <<[entryId |-> entryId, label |-> label,
                            notes |-> notes]>>))
    /\ UNCHANGED <<db, nextKey, nextSalt, lastPassword, nextEntry>>

DeleteAddressBookEntry(r, maxEntry) ==
    /\ Free(r)
    /\ \E entryId \in 1..maxEntry :
        Step(r, Received("deleteAddressBookEntry",
                         deleteAddressBookEntry(db, entryId), db.v,
                         <<[entryId |-> entryId]>>))
    /\ UNCHANGED <<db, nextKey, nextSalt, lastPassword, nextEntry>>

\* POST /login of a client: authLimiter, then loginUser
Login(r, maxHits) ==
    /\ Free(r)
    /\ \E client \in Clients, password \in Passwords :
        /\ limiter.hits[client] < maxHits
        /\ LET store == Increment(limiter, client)
           IN /\ limiter' = store
              /\ reqs' = [reqs EXCEPT ![r] =
                     IF Passes(store, client)
                     THEN Received("loginUser", loginUser(db, password), db.v,
                                   <<[client |-> client]>>)
                     ELSE Received("authLimiter", TooManyRequests, db.v,
                                   <<[client |-> client]>>)]
    /\ UNCHANGED <<db, nextKey, nextSalt, lastPassword, probe, nextEntry,
                   call, walletDocs, tokens>>

\* the response of a request of the user routes is finished
ResponseFinished(r) ==
    /\ reqs[r].pc = "replied"
    /\ limiter' = IF reqs[r].op \in {"loginUser", "authLimiter"}
                  THEN Finished(limiter, reqs[r].body[1].client, reqs[r].status,
                                reqs[r].op = "authLimiter")
                  ELSE limiter
    /\ reqs' = [reqs EXCEPT ![r] = NoRequest]
    /\ UNCHANGED <<db, nextKey, nextSalt, lastPassword, probe, nextEntry,
                   call, walletDocs, tokens>>

\* the window of the limiter ends
WindowEnds ==
    /\ Quiet
    /\ limiter.window < MaxWindow
    /\ limiter' = ResetAll(limiter)
    /\ UNCHANGED <<db, reqs, nextKey, nextSalt, lastPassword, probe, nextEntry,
                   call, walletDocs, tokens>>

\* a request reaches protect: it ends there, or awaits User.findById
Protect ==
    /\ call.pc = "none"
    /\ \E header \in Headers :
        call' = IF Verifies(header)
                THEN Called("protect", header, "finding", Outcome(<<>>, 0))
                ELSE Called("protect", header, "done", protect(header, FALSE))
    /\ UNCHANGED <<db, reqs, nextKey, nextSalt, lastPassword, probe, nextEntry,
                   limiter, walletDocs, tokens>>

\* a request reaches auth: it ends there, or awaits User.findById
Auth ==
    /\ call.pc = "none"
    /\ \E header \in Headers :
        call' = IF Verifies(header)
                THEN Called("auth", header, "finding", Outcome(<<>>, 0))
                ELSE Called("auth", header, "done", auth(header, FALSE))
    /\ UNCHANGED <<db, reqs, nextKey, nextSalt, lastPassword, probe, nextEntry,
                   limiter, walletDocs, tokens>>

\* User.findById has returned; auth stamps and saves the user it found
FindById ==
    /\ call.pc = "finding"
    /\ LET found == Found(call.header, db)
       IN IF call.mw = "protect"
          THEN /\ call' = Called("protect", call.header, "done",
                                 protect(call.header, found))
               /\ db' = db
          ELSE /\ call' = Called("auth", call.header, "done",
                                 auth(call.header, found))
               /\ db' = IF auth(call.header, found).nexts = 1
                        THEN [db EXCEPT !.lastLogin = 1] ELSE db
    /\ UNCHANGED <<reqs, nextKey, nextSalt, lastPassword, probe, nextEntry,
                   limiter, walletDocs, tokens>>

\* the request under the middleware is over
CallEnds ==
    /\ call.pc = "done"
    /\ call' = NoCall
    /\ UNCHANGED <<db, reqs, nextKey, nextSalt, lastPassword, probe, nextEntry,
                   limiter, walletDocs, tokens>>

\* createEthereumWallet and createSolanaWallet of a user
CreateWallet(r) ==
    /\ Free(r)
    /\ nextEntry <= MaxDocs
    /\ nextKey <= MaxWallets
    /\ \E userId \in Users, name \in WalletNames :
        \/ LET doc == createEthereumWallet(userId, name, nextKey, nextEntry)
           IN /\ walletDocs' = Append(walletDocs, doc)
              /\ reqs' = [reqs EXCEPT ![r] =
                     Received("createEthereumWallet",
                              ReplyWith(201, "Ethereum wallet created successfully",
                                        Plain("wallet", doc.id)), 0,
                              <<[userId |-> userId]>>)]
        \/ LET doc == createSolanaWallet(userId, name, nextKey, nextEntry)
           IN /\ walletDocs' = Append(walletDocs, doc)
              /\ reqs' = [reqs EXCEPT ![r] =
                     Received("createSolanaWallet",
                              ReplyWith(201, "Solana wallet created successfully",
                                        Plain("wallet", doc.id)), 0,
                              <<[userId |-> userId]>>)]
    /\ nextKey' = nextKey + 1
    /\ nextEntry' = nextEntry + 1
    /\ UNCHANGED <<db, nextSalt, lastPassword, probe, limiter, call, tokens>>

\* importEthereumWallet and importSolanaWallet of a private key generated
\* elsewhere
ImportWallet(r) ==
    /\ Free(r)
    /\ nextEntry <= MaxDocs
    /\ \E userId \in Users, blockchain \in {"ethereum", "solana"},
          privateKey \in {NoPlain, EthPrivateKey(MaxWallets + 1),
                          Bs58Encode(SolSecretKey(MaxWallets + 1))} :
        LET result == importWallet(walletDocs, userId, "", blockchain, privateKey,
                                   nextEntry)
        IN /\ walletDocs' = IF result.status = 201
                            THEN Append(walletDocs, result.out) ELSE walletDocs
           /\ nextEntry' = IF result.status = 201 THEN nextEntry + 1 ELSE nextEntry
           /\ reqs' = [reqs EXCEPT ![r] =
                  Received("importWallet",
                           IF result.status = 201
                           THEN ReplyWith(201, result.message,
                                          Plain("wallet", result.out.id))
                           ELSE result,
                           0, <<[userId |-> userId]>>)]
    /\ UNCHANGED <<db, nextKey, nextSalt, lastPassword, probe, limiter, call,
                   tokens>>

\* updateWallet and deleteWallet up to their write
FindWalletById(r) ==
    /\ Free(r)
    /\ \E userId \in Users, walletId \in WalletIds, name \in WalletNames :
        \/ LET result == findWallet(walletDocs, walletId, userId,
                                    "Wallet updated successfully")
           IN reqs' = [reqs EXCEPT ![r] =
                  [Received("updateWallet", result, 0,
                            <<[userId |-> userId, walletId |-> walletId,
                               name |-> name]>>)
                   EXCEPT !.pc = IF result.status = 200 THEN "writing" ELSE "replied"]]
        \/ LET result == findWallet(walletDocs, walletId, userId,
                                    "Wallet deleted successfully")
           IN reqs' = [reqs EXCEPT ![r] =
                  [Received("deleteWallet", result, 0,
                            <<[userId |-> userId, walletId |-> walletId,
                               name |-> ""]>>)
                   EXCEPT !.pc = IF result.status = 200 THEN "writing" ELSE "replied"]]
    /\ UNCHANGED <<db, nextKey, nextSalt, lastPassword, probe, nextEntry,
                   limiter, call, walletDocs, tokens>>

\* wallet.save() of updateWallet, Wallet.deleteOne of deleteWallet; a save
\* of a document that is no longer stored rejects
WriteWallet(r) ==
    /\ Quiet
    /\ reqs[r].pc = "writing"
    /\ LET walletId == reqs[r].body[1].walletId
           stored == \E i \in DOMAIN walletDocs : walletDocs[i].id = walletId
       IN IF reqs[r].op = "deleteWallet"
          THEN /\ walletDocs' = DeleteOne(walletDocs, walletId)
               /\ reqs' = [reqs EXCEPT ![r].pc = "replied"]
          ELSE /\ walletDocs' = SaveName(walletDocs, walletId, reqs[r].body[1].name)
               /\ reqs' = [reqs EXCEPT ![r] =
                      IF stored \/ reqs[r].body[1].name = ""
                      THEN [@ EXCEPT !.pc = "replied"]
                      ELSE [Saved(@, FALSE) EXCEPT !.error = "DocumentNotFoundError"]]
    /\ UNCHANGED <<db, nextKey, nextSalt, lastPassword, probe, nextEntry,
                   limiter, call, tokens>>

\* a call of Wallet.updateTokenBalance, up to its first findOneAndUpdate
UpdateTokenBalance(c) ==
    /\ tokens.calls[c].pc = "idle"
    /\ \E tokenAddress \in TokenAddresses, balance \in Balances :
           tokens' = updateTokenBalance(tokens, c, tokenAddress, balance)
    /\ UNCHANGED <<db, reqs, nextKey, nextSalt, lastPassword, probe, nextEntry,
                   limiter, call, walletDocs>>

\* the .then() of a call whose first findOneAndUpdate returned null
PushToken(c) ==
    /\ tokens.calls[c].pc = "pushing"
    /\ tokens' = pushToken(tokens, c)
    /\ UNCHANGED <<db, reqs, nextKey, nextSalt, lastPassword, probe, nextEntry,
                   limiter, call, walletDocs>>

\* `await user.save()` of the request in slot r
UserSave(r) ==
    /\ Quiet
    /\ reqs[r].pc = "saving"
    /\ LET saved == Save(db, reqs[r].update, reqs[r].vread)
       IN /\ db' = saved.doc
          /\ Step(r, Saved(reqs[r], saved.ok))
          /\ lastPassword' = IF saved.doc.password.pw # db.password.pw
                              THEN db.password.pw ELSE lastPassword
    /\ UNCHANGED <<nextKey, nextSalt, nextEntry>>

\* the response of slot r has been sent
Respond(r) ==
    /\ reqs[r].pc = "replied"
    /\ Step(r, NoRequest)
    /\ UNCHANGED <<db, nextKey, nextSalt, lastPassword, nextEntry>>

\* Requests of the user interleaving at their awaits.  The requests draw
\* IVs of class 0 and ask for no label, and one key pair less is generated.
Next ==
    \E r \in Slots :
        \/ RegisterUser(r, {0})
        \/ CreateAdditionalWallet(r, {0}, {""}, MaxWallets - 1)
        \/ SetDefaultWallet(r)
        \/ RecoverWalletFromPhrase(r, {0})
        \/ SignMessage(r)
        \/ LoginUser(r)
        \/ Transfer(r)
        \/ UserSave(r)
        \/ Respond(r)

Spec == Init /\ [][Next]_vars

\* Requests served one after the other (no request starts while one is
\* saving), with every IV class and label.
NextSeq ==
    \/ RegisterUser(1, IVs)
    \/ CreateAdditionalWallet(1, IVs, RequestedLabels, MaxWallets)
    \/ SetDefaultWallet(1)
    \/ RecoverWalletFromPhrase(1, IVs)
    \/ SignMessage(1)
    \/ LoginUser(1)
    \/ Transfer(1)
    \/ UserSave(1)
    \/ Respond(1)

SpecSeq == Init /\ [][NextSeq]_vars

\* The wallet registry alone: interleaved requests that add wallets and
\* choose the default.
NextRegistry ==
    \E r \in Slots :
        \/ RegisterUser(r, {0})
        \/ CreateAdditionalWallet(r, {0}, {""}, MaxWallets)
        \/ SetDefaultWallet(r)
        \/ UserSave(r)
        \/ Respond(r)

SpecRegistry == Init /\ [][NextRegistry]_vars

\* The addresses and blockchains of address book requests.
BookAddresses ==
    {BookAddress(1, "lower"), BookAddress(1, "checksum"), BookAddress(2, "base58"),
     BookAddress(0, "invalid")}

\* The address book alone: interleaved requests on the book of one user.
NextBook ==
    \E r \in Slots :
        \/ RegisterUser(r, {0})
        \/ AddAddressBookEntry(r, BookAddresses, RequestedChains, MaxEntries)
        \/ AddBatchAddressBookEntries(r, {BookAddress(1, "lower"),
                                          BookAddress(0, "invalid")},
                                      {"ethereum", "Ethereum", "bitcoin"},
                                      MaxEntries)
        \/ UpdateAddressBookEntry(r, {"l2"}, MaxEntries)
        \/ DeleteAddressBookEntry(r, MaxEntries)
        \/ UserSave(r)
        \/ Respond(r)

SpecBook == Init /\ [][NextBook]_vars

\* Every handler of the user, one request at a time: requests draw IVs of
\* class 0, one key pair less is generated, and the address book takes the
\* two writings of one ethereum address.
NextAll ==
    \/ RegisterUser(1, {0})
    \/ CreateAdditionalWallet(1, {0}, RequestedLabels, MaxWallets - 1)
    \/ SetDefaultWallet(1)
    \/ RecoverWalletFromPhrase(1, {0})
    \/ SignMessage(1)
    \/ LoginUser(1)
    \/ Transfer(1)
    \/ AddAddressBookEntry(1, {BookAddress(1, "lower"), BookAddress(1, "checksum")},
                           {"ethereum"}, MaxEntries)
    \/ AddBatchAddressBookEntries(1, {BookAddress(1, "lower")}, {"Ethereum"},
                                  MaxEntries)
    \/ UpdateAddressBookEntry(1, {"l2"}, MaxEntries)
    \/ DeleteAddressBookEntry(1, MaxEntries)
    \/ UserSave(1)
    \/ Respond(1)

SpecAll == Init /\ [][NextAll]_vars

\* The login route: login requests of two clients, one at a time, and the
\* end of the window.
NextLogin ==
    \/ RegisterUser(1, {0})
    \/ Login(1, MaxHits)
    \/ ResponseFinished(1)
    \/ WindowEnds

SpecLogin == Init /\ [][NextLogin]_vars

\* The middlewares: a request under protect or auth while users register
\* and add wallets.
NextAuth ==
    \/ RegisterUser(1, {0})
    \/ CreateAdditionalWallet(1, {0}, {""}, MaxWallets - 1)
    \/ UserSave(1)
    \/ Respond(1)
    \/ Protect
    \/ Auth
    \/ FindById
    \/ CallEnds

SpecAuth == Init /\ [][NextAuth]_vars

\* The wallets collection: interleaved requests of two users to
\* walletController, and the registration of the user document.
NextWallets ==
    \E r \in Slots :
        \/ RegisterUser(r, {0})
        \/ CreateWallet(r)
        \/ ImportWallet(r)
        \/ FindWalletById(r)
        \/ WriteWallet(r)
        \/ Respond(r)

SpecWallets == Init /\ [][NextWallets]_vars

\* Concurrent calls of Wallet.updateTokenBalance for one wallet.
NextTokens ==
    \E c \in Callers :
        \/ UpdateTokenBalance(c)
        \/ PushToken(c)

SpecTokens == Init /\ [][NextTokens]_vars

\* encryptPrivateKey of a text under a key, with the iv it draws
EncryptPrivateKey ==
    /\ probe.op = "none"
    /\ \E text \in Texts, key \in CipherKeys, iv \in Blocks :
        probe' = [NoProbe EXCEPT !.op = "encrypted", !.text = text, !.key = key,
                                 !.data = cipherText(text, key, iv)]
    /\ UNCHANGED <<db, reqs, nextKey, nextSalt, lastPassword, nextEntry, others>>

\* decryptPrivateKey of the ciphertext under a key
DecryptPrivateKey ==
    /\ probe.op = "encrypted"
    /\ \E key2 \in CipherKeys :
        probe' = [probe EXCEPT !.op = "decrypted", !.key2 = key2,
                               !.result = plainText(probe.data, key2)]
    /\ UNCHANGED <<db, reqs, nextKey, nextSalt, lastPassword, nextEntry, others>>

NextCipher == EncryptPrivateKey \/ DecryptPrivateKey

SpecCipher == Init /\ [][NextCipher]_vars

(***************************************************************************)
(* Properties.                                                             *)
(***************************************************************************)
Chains == {"ethereum", "solana"}

\* wallets.filter(w => w.blockchain === blockchain && w.isDefault).length
DefaultCount(wallets, blockchain) ==
    Cardinality({i \in DOMAIN wallets :
                    wallets[i].blockchain = blockchain /\ wallets[i].isDefault})

\* slot r holds a request of handler op that has replied with status
Replied(r, op, status) ==
    reqs[r].pc = "replied" /\ reqs[r].op = op /\ reqs[r].status = status

\* C1: after any sequence of registerUser, createAdditionalWallet and
\* setDefaultWallet requests served one after the other, every blockchain
\* has exactly one default wallet if the user has a wallet of it, and none
\* otherwise.
C1_ExactlyOneDefault ==
    \A blockchain \in Chains :
        DefaultCount(db.wallets, blockchain) =
            IF CountChain(db.wallets, blockchain) >= 1 THEN 1 ELSE 0

\* a setDefaultWallet has moved the default to a wallet added after registration
C1_Witness ==
    /\ Replied(1, "setDefaultWallet", 200)
    /\ \E i \in DOMAIN db.wallets : i > 2 /\ db.wallets[i].isDefault
    /\ CountChain(db.wallets, "ethereum") >= 2

\* slot r holds a re-keying that has reached its `await user.save()`
Rekeying(r) ==
    reqs[r].pc = "saving" /\ reqs[r].op = "recoverWalletFromPhrase"

\* the recovery phrase and every wallet of doc are encrypted under key
UnderKey(doc, key) ==
    /\ doc.recoveryPhrase.key = key
    /\ \A i \in DOMAIN doc.wallets : doc.wallets[i].privateKey.key = key

RecoveredKey(wallet, encryptionKey) ==
    IF wallet.blockchain = "ethereum"
    THEN EthersWallet(decryptPrivateKey(wallet.privateKey, encryptionKey))
    ELSE KeypairFromSecretKey(decryptPrivateKey(wallet.privateKey, encryptionKey))

\* C3: in every persisted state the recovery phrase and every wallet
\* ciphertext decrypt, under the key derived from the current login password
\* and the stored salt, to the mnemonic and to the private key that belongs
\* to the wallet's address.
C3_CiphertextsUnderLoginKey ==
    db.registered =>
        LET encryptionKey == generateEncryptionKey(db.password.pw, db.salt)
        IN /\ decryptPrivateKey(db.recoveryPhrase, encryptionKey)
                  = Mnemonic(db.wallets[1].address)
           /\ \A i \in DOMAIN db.wallets :
                  RecoveredKey(db.wallets[i], encryptionKey)
                      = PrivateKeyOf(db.wallets[i].blockchain, db.wallets[i].address)

SecretAccessFails(user, password) ==
    /\ \A i \in DOMAIN user.wallets :
           signMessage(user, user.wallets[i].address, user.wallets[i].blockchain,
                       password).status # 200
    /\ recoverWalletFromPhrase(user, password, "", 0, 0, <<>>).status # 200

\* the plaintexts that the login password of doc releases
Plaintexts(doc) ==
    LET encryptionKey == generateEncryptionKey(doc.password.pw, doc.salt)
    IN [phrase |-> decryptPrivateKey(doc.recoveryPhrase, encryptionKey),
        keys |-> [i \in DOMAIN doc.wallets |->
                     decryptPrivateKey(doc.wallets[i].privateKey, encryptionKey)]]

\* C5: once a re-keying has replaced the login password p1 by a different
\* p2, every secret access with p1 fails, on any wallet of the user, and the
\* re-keying leaves p2 releasing exactly the mnemonic and the private keys
\* that p1 released before it.
C5_OldPasswordLocked ==
    [][/\ lastPassword' # "" => SecretAccessFails(db', lastPassword')
       /\ db.registered /\ db'.password.pw # db.password.pw =>
              /\ Plaintexts(db').phrase = Plaintexts(db).phrase
              /\ \A i \in DOMAIN db.wallets :
                     Plaintexts(db').keys[i] = Plaintexts(db).keys[i]]_vars

\* a wallet or the recovery phrase of user does not decrypt under password
DecryptFails(user, password) ==
    LET encryptionKey == generateEncryptionKey(password, user.salt)
    IN \/ decryptPrivateKey(user.recoveryPhrase, encryptionKey) = BadDecrypt
       \/ \E i \in DOMAIN user.wallets :
              decryptPrivateKey(user.wallets[i].privateKey, encryptionKey)
                  = BadDecrypt

C7_NeverZeroOrManyDefaults ==
    \A blockchain \in Chains :
        CountChain(db.wallets, blockchain) > 0 =>
            /\ DefaultCount(db.wallets, blockchain) # 0
            /\ ~(DefaultCount(db.wallets, blockchain) > 1)

\* C8: a setDefaultWallet whose (address, blockchain) matches no wallet of
\* the user is answered 404 "Wallet not found" without a save, and the
\* user document, every isDefault flag included, stays what it was.
C8_NotFoundLeavesDocument ==
    [][/\ \A walletAddress \in Addresses, blockchain \in RequestedChains :
              (db.registered
                 /\ ~\E i \in DOMAIN db.wallets :
                        /\ db.wallets[i].address = walletAddress
                        /\ db.wallets[i].blockchain = blockchain) =>
                  setDefaultWallet(db, walletAddress, blockchain)
                      = Reply(404, "Wallet not found", "")
       /\ \A r \in Slots :
              /\ (reqs[r].pc = "idle" /\ reqs'[r].op = "setDefaultWallet") =>
                     /\ db' = db
                     /\ reqs'[r].pc = "replied" =>
                            /\ reqs'[r].status = 404
                            /\ reqs'[r].update = NoUpdate
                     /\ reqs'[r].pc = "saving" =>
                            \E i \in DOMAIN db.wallets :
                                /\ db.wallets[i].address = reqs'[r].out.id
                                /\ db.wallets[i].blockchain = reqs'[r].out.kind
              /\ (reqs[r].op = "setDefaultWallet" /\ reqs[r].status = 404) =>
                     db' = db]_vars

\* a setDefaultWallet of a registered user has been answered "Wallet not found"
C8_Witness ==
    /\ Replied(1, "setDefaultWallet", 404)
    /\ reqs[1].message = "Wallet not found"
    /\ Len(db.wallets) >= 3

\* C10: a successful registerUser stores exactly two wallets, one ethereum
\* and one solana, both default; a createAdditionalWallet on a blockchain
\* that has a wallet appends one wallet with isDefault = false and leaves
\* every stored wallet, so the default of the blockchain, as it was.
C10_RegisterDefaultsCreateNot ==
    [][/\ (~db.registered /\ db'.registered) =>
              /\ Len(db'.wallets) = 2
              /\ db'.wallets[1].blockchain = "ethereum"
              /\ db'.wallets[2].blockchain = "solana"
              /\ \A i \in 1..2 : db'.wallets[i].isDefault
       /\ \A r \in Slots :
              (reqs[r].op = "createAdditionalWallet" /\ reqs[r].pc = "saving"
                 /\ reqs'[r].pc = "replied") =>
                  /\ reqs'[r].status = 201
                  /\ Len(db'.wallets) = Len(db.wallets) + 1
                  /\ SubSeq(db'.wallets, 1, Len(db.wallets)) = db.wallets
                  /\ CountChain(db.wallets, db'.wallets[Len(db'.wallets)].blockchain) >= 1 =>
                         ~db'.wallets[Len(db'.wallets)].isDefault]_vars

\* a wallet has been added to a blockchain whose default is a registration wallet
C10_Witness ==
    /\ Replied(1, "createAdditionalWallet", 201)
    /\ Len(db.wallets) >= 3
    /\ ~db.wallets[Len(db.wallets)].isDefault
    /\ db.wallets[1].isDefault /\ db.wallets[2].isDefault

\* slot r holds a re-keying whose save succeeds in this step
RekeySaved(r) ==
    Rekeying(r) /\ reqs'[r].pc = "replied" /\ reqs'[r].status = 200

\* C11: the salt is set at registration; a step in which no re-keying is
\* saved leaves it unchanged, whatever handler takes the step, and every
\* saved re-keying replaces it by a salt drawn after every salt stored
\* before.
C11_SaltOnlyByRekey ==
    [][/\ (~db.registered /\ db'.registered) => db'.salt = 0
       /\ db.registered =>
              IF \E r \in Slots : RekeySaved(r)
              THEN db'.salt > db.salt
              ELSE db'.salt = db.salt]_vars

\* the second re-keying of a user has been saved, requests on the wallets
\* and on the address book having been served before
C11_Witness ==
    \E r \in Slots :
        /\ Replied(r, "recoverWalletFromPhrase", 200)
        /\ reqs[r].message = "Wallet recovered and password updated successfully"
        /\ db.salt = 2
        /\ Len(db.wallets) > 2
        /\ db.addressBook # <<>>

SecretAccessOps ==
    {"signMessage", "transferERC20Token", "transferSOL", "transferSPLToken"}

\* the reply of a secret access that failed in its try block: the catch's
\* 500 with the handler's failure message, and nothing signed or sent
FailedAccess(result, message) ==
    /\ ~result.save
    /\ result.status = 500 /\ result.message = message
    /\ result.error \in {"bad decrypt", "invalid private key", "bad secret key size"}
    /\ result.out = NoOut

C17_LoginRecordsLastLogin ==
    \A r \in Slots :
        Replied(r, "loginUser", 200) =>
            /\ reqs[r].out = Plain("token", 0)
            /\ db.lastLogin # 0

\* C18: an authentication for an unknown identity (no user document) and
\* one for the existing identity with a wrong password get the same status
\* and the same message, from loginUser and from the password check of
\* recoverWalletFromPhrase.
C18_SameFailureForUnknownAndWrong ==
    db.registered =>
        \A password \in Passwords :
            ~bcryptCompare(password, db.password) =>
                /\ loginUser(NoUser, password).status = loginUser(db, password).status
                /\ loginUser(NoUser, password).message = loginUser(db, password).message
                /\ recoverWalletFromPhrase(NoUser, password, "", 0, 0, <<>>).status
                       = recoverWalletFromPhrase(db, password, "", 0, 0, <<>>).status
                /\ recoverWalletFromPhrase(NoUser, password, "", 0, 0, <<>>).message
                       = recoverWalletFromPhrase(db, password, "", 0, 0, <<>>).message

C15_WrongKeyFails ==
    (probe.op = "decrypted" /\ probe.key2 # probe.key) =>
        probe.result = DecryptionError

HoldsEthereum(addressBook, n) ==
    \E i \in DOMAIN addressBook :
        addressBook[i].blockchain = "ethereum" /\ addressBook[i].address.n = n

Serving(r, op) == reqs[r].op = op /\ reqs[r].pc # "idle"

\* the document is as the request in slot r read it
AsRead(r) ==
    \/ reqs[r].pc = "saving" /\ reqs[r].vread = db.v
    \/ reqs[r].pc = "replied" /\ reqs[r].out.kind = "batch" /\ reqs[r].out.id = 0

\* a batch entry the handler's own validation accepts
ValidEntry(entry) ==
    /\ entry.label # ""
    /\ ToLowerCase(entry.blockchain) \in {"ethereum", "solana"}
    /\ IsValidAddress(entry.address, ToLowerCase(entry.blockchain))

\* the entry the handler stores for a request entry
StoredAs(stored, entry) ==
    /\ stored.label = entry.label /\ stored.address = entry.address
    /\ stored.blockchain = ToLowerCase(entry.blockchain)
    /\ stored.notes = entry.notes

\* C21: a batch of two copies of one valid entry that the book does not
\* hold adds the first copy and refuses the second alone, as a duplicate
\* within the batch.
C21_SecondCopyRejected ==
    \A r \in Slots :
        (/\ Serving(r, "addBatchAddressBookEntries")
         /\ db.registered /\ AsRead(r)
         /\ Len(reqs[r].body) = 2 /\ reqs[r].body[1] = reqs[r].body[2]
         /\ ValidEntry(reqs[r].body[1])
         /\ ~FindEntry(db.addressBook, reqs[r].body[1].address,
                       ToLowerCase(reqs[r].body[1].blockchain)))
            => /\ reqs[r].pc = "saving"
               /\ Len(reqs[r].update.bookPush) = 1
               /\ StoredAs(reqs[r].update.bookPush[1], reqs[r].body[1])
               /\ reqs[r].out.invalidEntries =
                      <<[entry |-> reqs[r].body[2],
                         reason |-> "Duplicate address in batch"]>>

\* the entries of a batch, in order, are each the next stored entry or the
\* next refused entry
RECURSIVE Partitions(_, _, _)
Partitions(entries, validEntries, invalidEntries) ==
    IF entries = <<>> THEN validEntries = <<>> /\ invalidEntries = <<>>
    ELSE \/ /\ validEntries # <<>>
            /\ StoredAs(Head(validEntries), Head(entries))
            /\ Partitions(Tail(entries), Tail(validEntries), invalidEntries)
         \/ /\ invalidEntries # <<>>
            /\ Head(invalidEntries).entry = Head(entries)
            /\ Head(invalidEntries).reason # ""
            /\ Partitions(Tail(entries), validEntries, Tail(invalidEntries))

\* C22: the batch handler partitions its entries into the ones it stores and
\* the ones it reports with a reason, added and failed sum to the length of
\* the batch, and its one save appends exactly the stored ones to the book.
C22_BatchPartitions ==
    [][\A r \in Slots :
        /\ (reqs'[r].op = "addBatchAddressBookEntries" /\ reqs'[r].status = 200
              /\ reqs[r].pc = "idle") =>
               /\ reqs'[r].out.id + Len(reqs'[r].out.invalidEntries)
                      = Len(reqs'[r].body)
               /\ reqs'[r].out.id = Len(reqs'[r].update.bookPush)
               /\ Partitions(reqs'[r].body, reqs'[r].update.bookPush,
                             reqs'[r].out.invalidEntries)
               /\ db' = db
        /\ (reqs[r].op = "addBatchAddressBookEntries" /\ reqs[r].pc = "saving"
              /\ reqs'[r].pc = "replied") =>
               /\ db'.addressBook = db.addressBook \o reqs[r].update.bookPush
               /\ reqs'[r].status = 200 /\ reqs'[r].out = reqs[r].out]_vars

\* a batch of a valid and an invalid entry has been saved
C22_Witness ==
    \E r \in Slots :
        /\ Replied(r, "addBatchAddressBookEntries", 200)
        /\ reqs[r].out.id = 1 /\ Len(reqs[r].out.invalidEntries) = 1
        /\ Len(db.addressBook) > 0
        /\ db.addressBook[Len(db.addressBook)].address = reqs[r].body[2].address

\* an entry whose blockchain is not supported or whose address fails the
\* format check of its blockchain
BadEntry(entry) ==
    \/ ToLowerCase(entry.blockchain) \notin {"ethereum", "solana"}
    \/ ~IsValidAddress(entry.address, ToLowerCase(entry.blockchain))

ValidationReasons ==
    {"Missing required fields", "Invalid blockchain", "Invalid address format"}

\* C23: an entry of an unsupported blockchain, or whose address fails the
\* format check, is refused with a validation reason by addAddressBookEntry
\* and by addBatchAddressBookEntries, and is not among the entries the
\* request goes on to save.
C23_ValidationFailsClosed ==
    \A r \in Slots :
        /\ (Serving(r, "addAddressBookEntry") /\ db.registered
              /\ BadEntry(reqs[r].body[1])) =>
               /\ reqs[r].pc = "replied" /\ reqs[r].status = 400
               /\ reqs[r].message \in ValidationReasons
               /\ reqs[r].update = NoUpdate
        /\ (Serving(r, "addBatchAddressBookEntries") /\ reqs[r].status = 200) =>
               \A k \in DOMAIN reqs[r].body :
                   BadEntry(reqs[r].body[k]) =>
                       /\ \E i \in DOMAIN reqs[r].out.invalidEntries :
                              /\ reqs[r].out.invalidEntries[i].entry = reqs[r].body[k]
                              /\ reqs[r].out.invalidEntries[i].reason
                                     \in ValidationReasons
                       /\ \A i \in DOMAIN reqs[r].update.bookPush :
                              ~StoredAs(reqs[r].update.bookPush[i], reqs[r].body[k])
        /\ \A i \in DOMAIN db.addressBook :
               IsValidAddress(db.addressBook[i].address, db.addressBook[i].blockchain)

\* a batch with an entry of an unsupported blockchain is about to save its
\* other entry
C23_Witness ==
    \E r \in Slots :
        /\ Serving(r, "addBatchAddressBookEntries") /\ reqs[r].pc = "saving"
        /\ Len(reqs[r].body) = 2
        /\ reqs[r].body[1].blockchain = "bitcoin"
        /\ Len(reqs[r].update.bookPush) = 1

\* the entries of the book other than the one of the given id
OtherEntries(addressBook, entryId) ==
    SelectSeq(addressBook, LAMBDA e : e.id # entryId)

LoginAnswered(r, client) ==
    /\ reqs[r].pc = "idle" /\ reqs'[r].pc = "replied"
    /\ reqs'[r].op \in {"loginUser", "authLimiter"}
    /\ reqs'[r].body[1].client = client

C26_ProtectRespondsOnce ==
    (call.pc = "done" /\ call.mw = "protect") =>
        \/ call.nexts = 1 /\ call.responses = <<>>
        \/ /\ call.nexts = 0 /\ Len(call.responses) = 1
           /\ call.responses[1].status = 401

\* C27: protect and auth call next(), which runs the handler, only for a
\* token that verifies and whose user is in the store when User.findById
\* reads it; a request they turn away leaves the user document as it is.
C27_HandlerOnlyForStoredUser ==
    [][/\ call'.nexts > 0 =>
              /\ Verifies(call'.header) /\ Found(call'.header, db')
              /\ call'.nexts = 1
       /\ (call' # call /\ call'.nexts = 0) => db' = db
       /\ (call' # call /\ call'.nexts > 0) =>
              db' \in {db, [db EXCEPT !.lastLogin = 1]}]_vars

\* auth has let the request of a stored user through
C27_Witness ==
    /\ call.pc = "done" /\ call.mw = "auth" /\ call.nexts = 1
    /\ db.lastLogin = 1 /\ Len(db.wallets) > 2

\* the stored value is an output of encryptPrivateKey
IsCiphertext(stored) == DOMAIN stored = {"iv", "key", "pt"}

\* C24: the recovery phrase and every private key that registerUser,
\* createAdditionalWallet, a re-keying or a create or import of
\* walletController has stored is a ciphertext, and one that decrypts, under
\* a key derived from a password of the owner and the stored salt, to the
\* phrase or to the private key of the wallet's address.
C24_SecretsStoredRecoverably ==
    /\ db.registered =>
           \E password \in Passwords :
               LET encryptionKey == generateEncryptionKey(password, db.salt)
               IN /\ IsCiphertext(db.recoveryPhrase)
                  /\ decryptPrivateKey(db.recoveryPhrase, encryptionKey)
                         = Mnemonic(db.wallets[1].address)
                  /\ \A i \in DOMAIN db.wallets :
                         /\ IsCiphertext(db.wallets[i].privateKey)
                         /\ RecoveredKey(db.wallets[i], encryptionKey)
                                = PrivateKeyOf(db.wallets[i].blockchain,
                                               db.wallets[i].address)
    /\ \A i \in DOMAIN walletDocs :
           /\ walletDocs[i].privateKey.kind
                  \notin {"ethkey", "solkey-bytes", "solkey-bs58", "mnemonic"}
           /\ IsCiphertext(walletDocs[i].privateKey)
           /\ \E password \in Passwords, salt \in 0..MaxSalt :
                  RecoveredKey(walletDocs[i], generateEncryptionKey(password, salt))
                      = PrivateKeyOf(walletDocs[i].blockchain, walletDocs[i].address)

\* the wallet documents of another _id
OtherWallets(docs, walletId) == SelectSeq(docs, LAMBDA d : d.id # walletId)

\* C28: updateWallet and deleteWallet with a walletId that is the _id of no
\* wallet of the requesting user reply 404 'Wallet not found' and write
\* nothing; the write of an updateWallet changes the name of the requester's
\* wallet of that _id and nothing else, and the write of a deleteWallet
\* removes exactly that wallet.
C28_OnlyOwnWallet ==
    [][\A r \in Slots :
        /\ (reqs[r].pc = "idle"
              /\ reqs'[r].op \in {"updateWallet", "deleteWallet"}
              /\ FindWallet(walletDocs, reqs'[r].body[1].walletId,
                            reqs'[r].body[1].userId) = 0) =>
               /\ reqs'[r].pc = "replied" /\ reqs'[r].status = 404
               /\ reqs'[r].message = "Wallet not found"
               /\ walletDocs' = walletDocs
        /\ (reqs[r].pc = "writing" /\ reqs'[r].pc = "replied"
              /\ reqs'[r].status = 200) =>
               LET walletId == reqs[r].body[1].walletId
               IN /\ OtherWallets(walletDocs', walletId)
                         = OtherWallets(walletDocs, walletId)
                  /\ \A i \in DOMAIN walletDocs :
                         walletDocs[i].id = walletId =>
                             walletDocs[i].user = reqs[r].body[1].userId
                  /\ IF reqs[r].op = "deleteWallet"
                     THEN /\ Len(walletDocs') = Len(walletDocs) - 1
                          /\ FindWalletOfAnyone(walletDocs', walletId, 0) = 0
                     ELSE /\ Len(walletDocs') = Len(walletDocs)
                          /\ \A i \in DOMAIN walletDocs :
                                 walletDocs'[i] =
                                     [walletDocs[i] EXCEPT
                                         !.name = walletDocs'[i].name]]_vars

\* C29: the tokens of the wallet hold at most one entry per token address,
\* and the entry of an address for which a call has completed holds the
\* balance of the call that completed last; calls that interleave for a token
\* the wallet does not hold yet do not both append an entry.
C29_OneEntryPerToken ==
    /\ \A i, j \in DOMAIN tokens.list :
           tokens.list[i].address = tokens.list[j].address => i = j
    /\ \A i \in DOMAIN tokens.list :
           tokens.last[tokens.list[i].address] # 0 =>
               tokens.list[i].balance = tokens.last[tokens.list[i].address]

============================================================================
